---- MODULE Spec2Model ----
(***************************************************************************)
(* diagnose-endpoint: the diagnostic run of the two entry scripts of the   *)
(* repository, src/unnamed/part_000 (HTTP and WebSocket endpoints) and     *)
(* src/index.js (HTTP endpoints only).                                     *)
(*                                                                         *)
(* A run is a JavaScript async function: it executes run-to-completion     *)
(* segments separated by `await`.  Each segment is one action.  The        *)
(* awaited promise is settled by the HTTP client (got) or by the           *)
(* WebSocket client's event handlers; the continuation of the run is a     *)
(* later step.                                                             *)
(*                                                                         *)
(* Strings whose contents the code inspects are tuples of characters       *)
(* (endpoint, access-control-allow-methods) or of JSON tokens (the         *)
(* introspection body); strings only compared for equality are tuples of   *)
(* one chunk.  The empty string is the empty tuple.                        *)
(***************************************************************************)
EXTENDS Integers, Sequences, FiniteSets, TLC

VARIABLES
    program,                  \* which entry script runs
    endpoint,                 \* options.endpoint
    origin,                   \* options.origin
    pc,                       \* position of the async run
    hasIdentifiedProblem,
    hasIdentifiedCorsProblem,
    isWebSocket,
    output,                   \* console.log lines, in order
    requests,                 \* probes issued, in order
    promise,                  \* the promise the run is awaiting
    optionsResponse,          \* const optionsResponse of the try block
    graphql,                  \* what buildClientSchema / validateSchema did
    ws,                       \* WebSocket client / connection
    wsFirst,                  \* first terminal event the client delivered
    wsEvents                  \* number of connection events delivered

vars == <<program, endpoint, origin, pc, hasIdentifiedProblem,
          hasIdentifiedCorsProblem, isWebSocket, output, requests, promise,
          optionsResponse, graphql, ws, wsFirst, wsEvents>>

----------------------------------------------------------------------------
(* Bounds *)

\* method names joined into one access-control-allow-methods value
MaxMethods == 2
\* raw token sequences tried as introspection bodies
MaxRawLen == 2
\* nesting depth of the JSON documents tried as introspection bodies
MaxDepth == 2
\* events the WebSocket client delivers after the connection opened
MaxWsEvents == 3

----------------------------------------------------------------------------
(* Strings *)

Str(c) == <<c>>
EmptyString == <<>>
\* the value of a missing property
Undefined == <<"undefined">>

\* JavaScript truthiness of a string-or-undefined value
Truthy(v) == v # Undefined /\ v # EmptyString

\* s.includes(t)
Includes(s, t) ==
    \E i \in 0..(Len(s) - Len(t)) : SubSeq(s, i + 1, i + Len(t)) = t

LowerCase(c) ==
    CASE c = "W" -> "w"
      [] c = "S" -> "s"
      [] c = "H" -> "h"
      [] OTHER -> c

RECURSIVE SeqsUpTo(_, _)
SeqsUpTo(S, n) ==
    IF n = 0 THEN {<<>>}
    ELSE LET shorter == SeqsUpTo(S, n - 1)
         IN  shorter \cup {Append(s, x) : s \in shorter, x \in S}

----------------------------------------------------------------------------
(* Command line *)

Programs == {"part_000", "index.js"}

Endpoints ==
    { <<"w","s",":">>, <<"w","s","s",":">>, <<"W","S","S",":">>,
      <<"W","s",":">>, <<"h","t","t","p",":">>, <<"h","t","t","p","s",":">>,
      <<"w","s","x",":">>, <<"x","w","s",":">> }

StudioOrigin == Str("https://studio.apollographql.com")
Origins == {StudioOrigin, Str("https://app.example"), EmptyString}

\* /^wss?:/ without the i flag
MatchesWsNoIgnoreCase(e) ==
    /\ Len(e) >= 3
    /\ e[1] = "w"
    /\ e[2] = "s"
    /\ \/ e[3] = ":"
       \/ e[3] = "s" /\ Len(e) >= 4 /\ e[4] = ":"

\* !!options.endpoint.match(/^wss?:/i)
MatchesWs(e) ==
    /\ Len(e) >= 3
    /\ LowerCase(e[1]) = "w"
    /\ LowerCase(e[2]) = "s"
    /\ \/ e[3] = ":"
       \/ LowerCase(e[3]) = "s" /\ Len(e) >= 4 /\ e[4] = ":"

----------------------------------------------------------------------------
(* HTTP client (got) outcomes *)

Post == <<"P","O","S","T">>
MethodNames ==
    { <<"G","E","T">>, Post, <<"p","o","s","t">>, <<"P","O","S","T","S">>,
      <<"P","U","T">> }

\* method names joined by ", "
RECURSIVE JoinMethods(_)
JoinMethods(ms) ==
    IF ms = <<>> THEN <<>>
    ELSE IF Len(ms) = 1 THEN ms[1]
    ELSE ms[1] \o <<",", " ">> \o JoinMethods(Tail(ms))

AllowMethodsValues == {JoinMethods(ms) : ms \in SeqsUpTo(MethodNames, MaxMethods)}

AllowOriginValues ==
    Origins \cup {Str("*"), Str("https://other.example"), Str("null")}

ACAM == "access-control-allow-methods"
ACAO == "access-control-allow-origin"

NoHeaders == <<>>
OptionsHeaders == {NoHeaders} \cup {ACAM :> v : v \in AllowMethodsValues}
PingHeaders == {NoHeaders} \cup {ACAO :> v : v \in AllowOriginValues}

StatusCodes == {200, 401, 404, 500}

\* response.headers[name]
Header(response, name) ==
    IF name \in DOMAIN response.headers THEN response.headers[name] ELSE Undefined

\* e.code of the errors the clients raise; NoCode is an error without a code
NoCode == "undefined"
ErrorCodes == {"ENOTFOUND", "ECONNREFUSED", "EPROTO", "ETIMEDOUT", "ECONNRESET"}
Errors == [code : ErrorCodes \cup {NoCode}]

Pending == [state |-> "pending"]
Fulfilled(v) == [state |-> "fulfilled", value |-> v]
Rejected(e) == [state |-> "rejected", value |-> e]
NoPromise == [state |-> "none"]
\* a const that is not (or no longer) in scope
OutOfScope == [statusCode |-> 0, headers |-> NoHeaders]

----------------------------------------------------------------------------
(* Console and the two flags: st = [hp, hcp, out] *)

Line(warn, msg, arg) == [warn |-> warn, msg |-> msg, arg |-> arg]

consoleLog(st, msg) == [st EXCEPT !.out = Append(@, Line(FALSE, msg, <<>>))]

\* identifyProblem without the flag assignment
identifyProblemNoFlag(st, msg, arg) ==
    [st EXCEPT !.out = Append(@, Line(TRUE, msg, arg))]

identifyProblem(st, msg, arg) ==
    [st EXCEPT !.hp = TRUE, !.out = Append(@, Line(TRUE, msg, arg))]

\* identifyCorsProblem without the flag assignment
identifyCorsProblemNoFlag(st, msg, arg) == identifyProblem(st, msg, arg)

identifyCorsProblem(st, msg, arg) ==
    [identifyProblem(st, msg, arg) EXCEPT !.hcp = TRUE]

Now == [hp |-> hasIdentifiedProblem, hcp |-> hasIdentifiedCorsProblem, out |-> output]

----------------------------------------------------------------------------
(* Probe A and Probe B: the checks of the try block *)

\* statusCode === 401 / === 404 of the OPTIONS response
optionsStatusCheck(st, response) ==
    IF response.statusCode = 401
    THEN identifyProblem(st, "OPTIONS response returned 401", <<>>)
    ELSE IF response.statusCode = 404
    THEN identifyProblem(st, "OPTIONS response returned 404", <<>>)
    ELSE st

\* the header test with the case of the method name ignored
allowsPostAnyCase(h) ==
    /\ Truthy(h)
    /\ \/ Includes(h, Post)
       \/ Includes(h, <<"p","o","s","t">>)

\* headers[ACAM] && headers[ACAM].includes("POST")
allowsPost(h) == Truthy(h) /\ Includes(h, Post)

preflightCheck(st, response) ==
    IF ~allowsPost(Header(response, ACAM))
    THEN identifyCorsProblem(st,
             "OPTIONS response is missing header 'access-control-allow-methods: POST'", <<>>)
    ELSE st

\* the status chain with 404 tested first and 401 never
pingStatusCheckOnly404(st, response) ==
    IF response.statusCode = 404
    THEN identifyProblem(st, "POST response returned 404", <<>>)
    ELSE st

pingStatusCheck(st, response) ==
    IF response.statusCode = 401
    THEN identifyProblem(st, "POST response returned 401", <<>>)
    ELSE IF response.statusCode = 404
    THEN identifyProblem(st, "POST response returned 404", <<>>)
    ELSE st

\* the header test against the default origin instead of options.origin
originRejectedDefaultOrigin(h, o) ==
    \/ ~Truthy(h)
    \/ h # Str("*") /\ h # StudioOrigin

\* !h || (h !== "*" && h !== options.origin)
originRejected(h, o) ==
    \/ ~Truthy(h)
    \/ h # Str("*") /\ h # o

actualResponseCheck(st, response, o) ==
    IF originRejected(Header(response, ACAO), o)
    THEN identifyCorsProblem(st,
             "POST response missing 'access-control-allow-origin' header", <<>>)
    ELSE st

----------------------------------------------------------------------------
(* catch (e) { switch (e.code) ... } *)

\* the default case reporting the error twice
unexpectedErrorTwice(st, e) ==
    consoleLog(
        identifyProblem(
            identifyProblem(st, "Failed to diagnose what went wrong", <<e.code>>),
            "Failed to diagnose what went wrong", <<e.code>>),
        "Would you care to let us know about this?")

unexpectedError(st, e) ==
    consoleLog(
        identifyProblem(st, "Failed to diagnose what went wrong", <<e.code>>),
        "Would you care to let us know about this?")

\* src/index.js: no EPROTO case
switchIndexJs(st, e) ==
    CASE e.code = "ENOTFOUND" ->
             identifyProblem(st, "Could not resolve (ENOTFOUND)", <<>>)
      [] e.code = "ECONNREFUSED" ->
             identifyProblem(st, "Connection refused (ECONNREFUSED)", <<>>)
      [] OTHER -> unexpectedError(st, e)

\* the switch without its break statements: a case falls through to the next
switchPart000FallThrough(st, e) ==
    LET s1 == IF e.code = "ENOTFOUND"
              THEN identifyProblem(st, "Could not resolve (ENOTFOUND)", <<>>)
              ELSE st
        s2 == IF e.code \in {"ENOTFOUND", "ECONNREFUSED"}
              THEN identifyProblem(s1, "Connection refused (ECONNREFUSED)", <<>>)
              ELSE s1
        s3 == IF e.code \in {"ENOTFOUND", "ECONNREFUSED", "EPROTO"}
              THEN identifyProblem(s2, "Protocol wrong type for socket (EPROTO)", <<>>)
              ELSE s2
    IN  unexpectedError(s3, e)

\* src/unnamed/part_000
switchPart000(st, e) ==
    CASE e.code = "ENOTFOUND" ->
             identifyProblem(st, "Could not resolve (ENOTFOUND)", <<>>)
      [] e.code = "ECONNREFUSED" ->
             identifyProblem(st, "Connection refused (ECONNREFUSED)", <<>>)
      [] e.code = "EPROTO" ->
             identifyProblem(st, "Protocol wrong type for socket (EPROTO)", <<>>)
      [] OTHER -> unexpectedError(st, e)

catchBlock(st, e) ==
    IF program = "part_000" THEN switchPart000(st, e) ELSE switchIndexJs(st, e)

----------------------------------------------------------------------------
(* JSON: bodies are token sequences; 'x' is the JSON string "x" *)

Keys == {"data", "__schema", "errors"}

StringToken(k) ==
    CASE k = "data" -> "'data'"
      [] k = "__schema" -> "'__schema'"
      [] k = "errors" -> "'errors'"

StringTokens == {StringToken(k) : k \in Keys}

StringOf(tok) == CHOOSE k \in Keys : StringToken(k) = tok

JsonTokens == {"{", "}", "[", "]", ":", ",", "null", "1"} \cup StringTokens

\* A JSON value: t its type, s the text of a string, m the members of an
\* object as <<key, value>> pairs in document order (the elements of an
\* array likewise, with key "").
JNull == [t |-> "null", s |-> "", m |-> <<>>]
JNumber == [t |-> "number", s |-> "", m |-> <<>>]
JString(k) == [t |-> "string", s |-> k, m |-> <<>>]
JArray(members) == [t |-> "array", s |-> "", m |-> members]
JObject(members) == [t |-> "object", s |-> "", m |-> members]

RECURSIVE stringify(_), stringifyMembers(_, _)
stringifyMembers(members, isObject) ==
    IF members = <<>> THEN <<>>
    ELSE LET first == members[1]
             one == IF isObject
                    THEN <<StringToken(first[1]), ":">> \o stringify(first[2])
                    ELSE stringify(first[2])
         IN  IF Len(members) = 1 THEN one
             ELSE one \o <<",">> \o stringifyMembers(Tail(members), isObject)

stringify(v) ==
    CASE v.t = "null" -> <<"null">>
      [] v.t = "number" -> <<"1">>
      [] v.t = "string" -> <<StringToken(v.s)>>
      [] v.t = "array" -> <<"[">> \o stringifyMembers(v.m, FALSE) \o <<"]">>
      [] v.t = "object" -> <<"{">> \o stringifyMembers(v.m, TRUE) \o <<"}">>

\* recursive descent; a result is [ok, val, rest]
SyntaxError == [ok |-> FALSE, val |-> JNull, rest |-> <<>>]
Parsed(v, rest) == [ok |-> TRUE, val |-> v, rest |-> rest]

RECURSIVE parseValue(_), parseElements(_, _), parseMembers(_, _)
parseElements(ts, acc) ==
    LET r == parseValue(ts)
    IN  IF ~r.ok \/ r.rest = <<>> THEN SyntaxError
        ELSE LET elems == Append(acc, <<"", r.val>>)
             IN  CASE Head(r.rest) = "]" -> Parsed(JArray(elems), Tail(r.rest))
                   [] Head(r.rest) = "," -> parseElements(Tail(r.rest), elems)
                   [] OTHER -> SyntaxError

parseMembers(ts, acc) ==
    IF Len(ts) < 3 \/ ts[1] \notin StringTokens \/ ts[2] # ":" THEN SyntaxError
    ELSE LET r == parseValue(SubSeq(ts, 3, Len(ts)))
         IN  IF ~r.ok \/ r.rest = <<>> THEN SyntaxError
             ELSE LET members == Append(acc, <<StringOf(ts[1]), r.val>>)
                  IN  CASE Head(r.rest) = "}" -> Parsed(JObject(members), Tail(r.rest))
                        [] Head(r.rest) = "," -> parseMembers(Tail(r.rest), members)
                        [] OTHER -> SyntaxError

parseValue(ts) ==
    IF ts = <<>> THEN SyntaxError
    ELSE LET h == Head(ts)
             t == Tail(ts)
         IN  CASE h = "null" -> Parsed(JNull, t)
               [] h = "1" -> Parsed(JNumber, t)
               [] h \in StringTokens -> Parsed(JString(StringOf(h)), t)
               [] h = "[" ->
                    IF t # <<>> /\ Head(t) = "]" THEN Parsed(JArray(<<>>), Tail(t))
                    ELSE parseElements(t, <<>>)
               [] h = "{" ->
                    IF t # <<>> /\ Head(t) = "}" THEN Parsed(JObject(<<>>), Tail(t))
                    ELSE parseMembers(t, <<>>)
               [] OTHER -> SyntaxError

\* the whole text must be one value
parseText(body) ==
    LET r == parseValue(body)
    IN  IF r.ok /\ r.rest = <<>> THEN r ELSE SyntaxError

\* (key in v) throws a TypeError unless v is an object (arrays included)
inThrows(v) == v.t \notin {"object", "array"}

\* key in v, for the keys of Keys
in(key, v) == v.t = "object" /\ \E i \in 1..Len(v.m) : v.m[i][1] = key

\* v[key] of an object that has the key: the last member of that name
get(v, key) ==
    LET i == CHOOSE j \in 1..Len(v.m) :
                 /\ v.m[j][1] = key
                 /\ \A l \in (j + 1)..Len(v.m) : v.m[l][1] # key
    IN  v.m[i][2]

\* The documents tried as bodies
Leaves == {JNull, JNumber, JString("data"), JArray(<<>>), JObject(<<>>)}

RECURSIVE JsonValues(_)
JsonValues(depth) ==
    IF depth = 0 THEN Leaves
    ELSE LET inner == JsonValues(depth - 1)
         IN  Leaves \cup {JArray(<< <<"", v>> >>) : v \in inner}
                    \cup {JObject(<< <<k, v>> >>) : k \in Keys, v \in inner}

TwoMemberObjects ==
    {JObject(<< <<k1, v1>>, <<k2, v2>> >>) :
        k1 \in Keys, k2 \in Keys, v1 \in Leaves, v2 \in Leaves}

JsonDocuments == JsonValues(MaxDepth) \cup TwoMemberObjects

Bodies == SeqsUpTo(JsonTokens, MaxRawLen) \cup {stringify(v) : v \in JsonDocuments}

\* JSON.parse(body): [ok, val]; ~ok is a thrown SyntaxError. The parse of
\* each body is computed once.
ParsedBodies == [body \in Bodies |-> parseText(body)]
JSONparse(body) == ParsedBodies[body]

----------------------------------------------------------------------------
(* Probe C: validation of the introspection response *)

\* buildClientSchema asserts that data.__schema is an object; for an object
\* it throws, or validateSchema returns errors, or returns none
SchemaLibrary(data) ==
    IF get(data, "__schema").t = "object"
    THEN {"throws", "errors", "valid"}
    ELSE {"throws"}

\* whether the code reaches buildClientSchema(responseData.data)
reachesSchemaLibrary(body) ==
    LET p == JSONparse(body)
    IN  /\ p.ok
        /\ ~inThrows(p.val)
        /\ in("data", p.val)
        /\ ~inThrows(get(p.val, "data"))
        /\ in("__schema", get(p.val, "data"))

\* the validation result tested as `if (validationErrors)`: an array is truthy
introspectionCheckTruthyErrors(st, body, lib) ==
    LET p == JSONparse(body)
        caught == identifyProblem(st, "Introspection query could not parse", body)
        turnedOff == identifyProblem(st, "Introspection query received a response", body)
    IN  IF ~p.ok THEN caught
        ELSE IF inThrows(p.val) THEN caught
        ELSE IF ~in("data", p.val) THEN turnedOff
        ELSE IF inThrows(get(p.val, "data")) THEN caught
        ELSE IF ~in("__schema", get(p.val, "data")) THEN turnedOff
        ELSE CASE lib = "throws" -> caught
               [] OTHER ->
                      identifyProblem(st, "Invalid schema from introspection", <<>>)

\* try { JSON.parse ... } catch (e) { ... }; lib is the library's outcome
introspectionCheck(st, body, lib) ==
    LET p == JSONparse(body)
        caught == identifyProblem(st, "Introspection query could not parse", body)
        turnedOff == identifyProblem(st, "Introspection query received a response", body)
    IN  IF ~p.ok THEN caught
        ELSE IF inThrows(p.val) THEN caught
        ELSE IF ~in("data", p.val) THEN turnedOff
        ELSE IF inThrows(get(p.val, "data")) THEN caught
        ELSE IF ~in("__schema", get(p.val, "data")) THEN turnedOff
        ELSE CASE lib = "throws" -> caught
               [] lib = "errors" ->
                      identifyProblem(st, "Invalid schema from introspection", <<>>)
               [] lib = "valid" -> st

----------------------------------------------------------------------------
(* After the try/catch *)

suggestTunnel(st) ==
    IF st.hcp
    THEN consoleLog(st, "Interested in previewing a local tunnel to bypass CORS requirements?")
    ELSE st

\* the guard with the test of hasIdentifiedProblem dropped
introspectionGuardAlways(hp, isWs) == ~isWs

\* if (!hasIdentifiedProblem && !isWebSocket)
introspectionGuardPart000(hp, isWs) == ~hp /\ ~isWs

\* src/index.js: if (!hasIdentifiedProblem)
introspectionGuardIndexJs(hp, isWs) == ~hp

introspectionGuard(hp, isWs) ==
    IF program = "part_000"
    THEN introspectionGuardPart000(hp, isWs)
    ELSE introspectionGuardIndexJs(hp, isWs)

fallback(st) ==
    IF ~st.hp
    THEN consoleLog(st, "Failed to diagnose any problems with the endpoint")
    ELSE st

Assign(st) ==
    /\ hasIdentifiedProblem' = st.hp
    /\ hasIdentifiedCorsProblem' = st.hcp
    /\ output' = st.out

\* the fallback block placed before the introspection block
AfterTryFallbackFirst(st) ==
    LET s1 == fallback(suggestTunnel(st))
    IN  IF introspectionGuard(st.hp, isWebSocket)
        THEN /\ Assign(s1)
             /\ requests' = Append(requests, "INTROSPECTION")
             /\ promise' = Pending
             /\ pc' = "awaitIntrospection"
        ELSE /\ Assign(s1)
             /\ pc' = "done"
             /\ UNCHANGED <<requests, promise>>

\* the run from the end of the try/catch to its next await or to its end
AfterTry(st) ==
    LET s1 == suggestTunnel(st)
    IN  IF introspectionGuard(s1.hp, isWebSocket)
        THEN /\ Assign(s1)
             /\ requests' = Append(requests, "INTROSPECTION")
             /\ promise' = Pending
             /\ pc' = "awaitIntrospection"
        ELSE /\ Assign(fallback(s1))
             /\ pc' = "done"
             /\ UNCHANGED <<requests, promise>>

----------------------------------------------------------------------------
(* The run *)

NoEvent == [kind |-> "none", code |-> NoCode]

Init ==
    /\ program \in Programs
    /\ endpoint \in Endpoints
    /\ origin \in Origins
    /\ pc = "start"
    /\ hasIdentifiedProblem = FALSE
    /\ hasIdentifiedCorsProblem = FALSE
    /\ isWebSocket = FALSE
    /\ output = <<>>
    /\ requests = <<>>
    /\ promise = NoPromise
    /\ optionsResponse = OutOfScope
    /\ graphql = "unused"
    /\ ws = "none"
    /\ wsFirst = NoEvent
    /\ wsEvents = 0

\* from the start of the async function to its first await
Start ==
    /\ pc = "start"
    /\ isWebSocket' = (program = "part_000" /\ MatchesWs(endpoint))
    /\ Assign(consoleLog(Now, "Diagnosing"))
    /\ promise' = Pending
    /\ IF isWebSocket'
       THEN /\ requests' = Append(requests, "WEBSOCKET")
            /\ ws' = "connecting"
            /\ pc' = "awaitWebSocket"
       ELSE /\ requests' = Append(requests, "OPTIONS")
            /\ ws' = ws
            /\ pc' = "awaitOptions"
    /\ UNCHANGED <<program, endpoint, origin, optionsResponse, graphql, wsFirst,
                   wsEvents>>

AwaitingHttp == pc \in {"awaitOptions", "awaitPing", "awaitIntrospection"}

ResponsesFor(at) ==
    CASE at = "awaitOptions" -> [statusCode : StatusCodes, headers : OptionsHeaders]
      [] at = "awaitPing" -> [statusCode : StatusCodes, headers : PingHeaders]
      [] at = "awaitIntrospection" -> [statusCode : StatusCodes, body : Bodies]

\* got resolves with a response (throwHttpErrors: false)
GotResponds ==
    /\ AwaitingHttp
    /\ promise.state = "pending"
    /\ \E response \in ResponsesFor(pc) : promise' = Fulfilled(response)
    /\ UNCHANGED <<program, endpoint, origin, pc, hasIdentifiedProblem,
                   hasIdentifiedCorsProblem, isWebSocket, output, requests,
                   optionsResponse, graphql, ws, wsFirst, wsEvents>>

\* got rejects with a transport error
GotFails ==
    /\ AwaitingHttp
    /\ promise.state = "pending"
    /\ \E e \in Errors : promise' = Rejected(e)
    /\ UNCHANGED <<program, endpoint, origin, pc, hasIdentifiedProblem,
                   hasIdentifiedCorsProblem, isWebSocket, output, requests,
                   optionsResponse, graphql, ws, wsFirst, wsEvents>>

\* continuation of `await got(... OPTIONS ...)` up to `await got.post(...)`
OptionsResolved ==
    /\ pc = "awaitOptions"
    /\ promise.state = "fulfilled"
    /\ Assign(preflightCheck(optionsStatusCheck(Now, promise.value), promise.value))
    /\ optionsResponse' = promise.value
    /\ requests' = Append(requests, "PING")
    /\ promise' = Pending
    /\ pc' = "awaitPing"
    /\ UNCHANGED <<program, endpoint, origin, isWebSocket, graphql, ws, wsFirst, wsEvents>>

\* continuation of the ping `await got.post(...)` to the next await or the end
PingResolved ==
    /\ pc = "awaitPing"
    /\ promise.state = "fulfilled"
    /\ AfterTry(actualResponseCheck(pingStatusCheck(Now, promise.value),
                                    promise.value, origin))
    /\ optionsResponse' = OutOfScope
    /\ UNCHANGED <<program, endpoint, origin, isWebSocket, graphql, ws, wsFirst, wsEvents>>

\* a catch block that issues the failed probe once more
ProbeRejectedRetries ==
    /\ pc \in {"awaitOptions", "awaitPing", "awaitWebSocket"}
    /\ promise.state = "rejected"
    /\ Len(requests) < Len(<<"OPTIONS", "PING", "INTROSPECTION">>)
    /\ requests' = Append(requests, requests[Len(requests)])
    /\ promise' = Pending
    /\ UNCHANGED <<program, endpoint, origin, pc, hasIdentifiedProblem,
                   hasIdentifiedCorsProblem, isWebSocket, output,
                   optionsResponse, graphql, ws, wsFirst, wsEvents>>

\* an awaited promise of the try block rejects: catch, then as after the try
ProbeRejected ==
    /\ pc \in {"awaitOptions", "awaitPing", "awaitWebSocket"}
    /\ promise.state = "rejected"
    /\ AfterTry(catchBlock(Now, promise.value))
    /\ optionsResponse' = OutOfScope
    /\ UNCHANGED <<program, endpoint, origin, isWebSocket, graphql, ws, wsFirst, wsEvents>>

\* continuation of `await diagnoseWebSocket(...)` when the promise resolved
WebSocketResolved ==
    /\ pc = "awaitWebSocket"
    /\ promise.state = "fulfilled"
    /\ AfterTry(Now)
    /\ UNCHANGED <<program, endpoint, origin, isWebSocket, optionsResponse, graphql, ws, wsFirst, wsEvents>>

\* continuation of the introspection `await got.post(...)` to the end
IntrospectionResolved ==
    /\ pc = "awaitIntrospection"
    /\ promise.state = "fulfilled"
    /\ LET body == promise.value.body
       IN  IF reachesSchemaLibrary(body)
           THEN \E lib \in SchemaLibrary(get(JSONparse(body).val, "data")) :
                    /\ graphql' = lib
                    /\ Assign(fallback(introspectionCheck(Now, body, lib)))
           ELSE /\ graphql' = "unused"
                /\ Assign(fallback(introspectionCheck(Now, body, "unused")))
    /\ pc' = "done"
    /\ UNCHANGED <<program, endpoint, origin, isWebSocket, requests, promise,
                   optionsResponse, ws, wsFirst, wsEvents>>

\* the introspection request is awaited outside any try: the rejection leaves
\* the async function, and nothing after it runs
IntrospectionRejected ==
    /\ pc = "awaitIntrospection"
    /\ promise.state = "rejected"
    /\ pc' = "unhandledRejection"
    /\ UNCHANGED <<program, endpoint, origin, hasIdentifiedProblem,
                   hasIdentifiedCorsProblem, isWebSocket, output, requests,
                   promise, optionsResponse, graphql, ws, wsFirst, wsEvents>>

----------------------------------------------------------------------------
(* diagnoseWebSocket: the handlers of the client and of the connection *)

\* reject(e) / resolve() of a promise: only the first call settles it
\* a promise that a later reject could settle again
rejectAlways(p, e) == Rejected(e)

reject(p, e) == IF p.state = "pending" THEN Rejected(e) ELSE p
\* a resolve that does not settle the promise
resolveNever(p) == p

resolve(p) == IF p.state = "pending" THEN Fulfilled(Undefined) ELSE p

\* the handler passing the error on as it came
connectFailedCodeKept(p, error) == reject(p, error)

\* client.on('connectFailed', ...)
connectFailedHandler(p, error) ==
    reject(p, IF error.code = NoCode THEN [error EXCEPT !.code = "ENOTFOUND"] ELSE error)

First(kind, code) ==
    IF wsFirst.kind = "none" THEN [kind |-> kind, code |-> code] ELSE wsFirst

WsConnectFailed ==
    /\ ws = "connecting"
    /\ \E error \in Errors :
           /\ promise' = connectFailedHandler(promise, error)
           /\ wsFirst' = First("connectFailed", error.code)
    /\ ws' = "failed"
    /\ UNCHANGED <<program, endpoint, origin, pc, hasIdentifiedProblem,
                   hasIdentifiedCorsProblem, isWebSocket, output, requests,
                   optionsResponse, graphql, wsEvents>>

\* client.on('connect', ...): registers the connection's handlers
WsConnect ==
    /\ ws = "connecting"
    /\ ws' = "open"
    /\ UNCHANGED <<program, endpoint, origin, pc, hasIdentifiedProblem,
                   hasIdentifiedCorsProblem, isWebSocket, output, requests,
                   promise, optionsResponse, graphql, wsFirst, wsEvents>>

\* connection.on('error', ...)
WsError ==
    /\ ws = "open"
    /\ wsEvents < MaxWsEvents
    /\ \E error \in Errors :
           /\ promise' = reject(promise, error)
           /\ wsFirst' = First("error", error.code)
    /\ wsEvents' = wsEvents + 1
    /\ UNCHANGED <<program, endpoint, origin, pc, hasIdentifiedProblem,
                   hasIdentifiedCorsProblem, isWebSocket, output, requests,
                   optionsResponse, graphql, ws>>

\* connection.on('close', ...)
WsClose ==
    /\ ws = "open"
    /\ wsEvents < MaxWsEvents
    /\ promise' = resolve(promise)
    /\ wsFirst' = First("close", NoCode)
    /\ wsEvents' = wsEvents + 1
    /\ UNCHANGED <<program, endpoint, origin, pc, hasIdentifiedProblem,
                   hasIdentifiedCorsProblem, isWebSocket, output, requests,
                   optionsResponse, graphql, ws>>

----------------------------------------------------------------------------

Next ==
    \/ Start
    \/ GotResponds
    \/ GotFails
    \/ OptionsResolved
    \/ PingResolved
    \/ ProbeRejected
    \/ WebSocketResolved
    \/ IntrospectionResolved
    \/ IntrospectionRejected
    \/ WsConnectFailed
    \/ WsConnect
    \/ WsError
    \/ WsClose

Spec == Init /\ [][Next]_vars

\* the steps of the async function: the event loop runs a continuation whose
\* promise has settled
Run ==
    \/ Start
    \/ OptionsResolved
    \/ PingResolved
    \/ ProbeRejected
    \/ WebSocketResolved
    \/ IntrospectionResolved
    \/ IntrospectionRejected

\* the environment settling a probe: a response or failure of an HTTP
\* request, an event of the WebSocket client or of its connection
Settle ==
    \/ GotResponds
    \/ GotFails
    \/ WsConnectFailed
    \/ WsConnect
    \/ WsError
    \/ WsClose

\* one WebSocket and one HTTP endpoint, with the default origin
FairInit ==
    /\ Init
    /\ endpoint \in {<<"w","s",":">>, <<"h","t","t","p",":">>}
    /\ origin = StudioOrigin

\* the run under the assumption that every issued probe settles
FairSpec == FairInit /\ [][Next]_vars /\ WF_vars(Run) /\ WF_vars(Settle)

----------------------------------------------------------------------------
(* Vocabulary of the properties *)

Category(msg) ==
    CASE msg \in {"OPTIONS response returned 401", "POST response returned 401"} -> "AUTH"
      [] msg \in {"OPTIONS response returned 404", "POST response returned 404"} -> "NOT_FOUND"
      [] msg \in {"OPTIONS response is missing header 'access-control-allow-methods: POST'",
                  "POST response missing 'access-control-allow-origin' header"} -> "CORS"
      [] msg \in {"Could not resolve (ENOTFOUND)", "Connection refused (ECONNREFUSED)",
                  "Protocol wrong type for socket (EPROTO)"} -> "TRANSPORT"
      [] msg = "Failed to diagnose what went wrong" -> "UNKNOWN"
      [] msg \in {"Introspection query could not parse",
                  "Introspection query received a response",
                  "Invalid schema from introspection"} -> "SCHEMA"
      [] OTHER -> "NONE"

IsDiagnosis(line) == line.warn
DiagnosesOf(out) == SelectSeq(out, IsDiagnosis)
Diagnoses == DiagnosesOf(output)

\* the categories of the diagnoses of a sequence of lines, in order
CategoriesOf(out) == [i \in 1..Len(DiagnosesOf(out)) |-> Category(DiagnosesOf(out)[i].msg)]

CountIn(out, cat) == Cardinality({i \in 1..Len(out) : out[i].warn /\ Category(out[i].msg) = cat})
Count(cat) == CountIn(output, cat)

Emitted(msg) == \E i \in 1..Len(output) : output[i].msg = msg

\* the lines a step appends
Added == SubSeq(output', Len(output) + 1, Len(output'))

Issued(probe) == \E i \in 1..Len(requests) : requests[i] = probe

Ended == pc \in {"done", "unhandledRejection"}
PastTry == pc \in {"awaitIntrospection", "done", "unhandledRejection"}
HttpRun == pc # "start" /\ ~isWebSocket

TransportCodes == {"ENOTFOUND", "ECONNREFUSED", "EPROTO"}

Suggestion == "Interested in previewing a local tunnel to bypass CORS requirements?"
Fallback == "Failed to diagnose any problems with the endpoint"
ReportRequest == "Would you care to let us know about this?"

\* the scheme of a URL: the characters before the first colon, in lower case
HasColon(e) == \E i \in 1..Len(e) : e[i] = ":"
SchemeOf(e) ==
    LET colon == CHOOSE i \in 1..Len(e) : e[i] = ":" /\ \A j \in 1..(i - 1) : e[j] # ":"
    IN  [i \in 1..(colon - 1) |-> LowerCase(e[i])]
SchemeIsWs(e) == HasColon(e) /\ SchemeOf(e) \in {<<"w","s">>, <<"w","s","s">>}

\* the method names of an access-control-allow-methods value: the parts
\* between commas, without surrounding spaces
RECURSIVE Trim(_)
Trim(s) ==
    IF s # <<>> /\ Head(s) = " " THEN Trim(Tail(s))
    ELSE IF s # <<>> /\ s[Len(s)] = " " THEN Trim(SubSeq(s, 1, Len(s) - 1))
    ELSE s

RECURSIVE MethodTokens(_, _)
MethodTokens(s, cur) ==
    IF s = <<>> THEN {Trim(cur)}
    ELSE IF Head(s) = "," THEN {Trim(cur)} \cup MethodTokens(Tail(s), <<>>)
    ELSE MethodTokens(Tail(s), Append(cur, Head(s)))

HasPostToken(h) == h # Undefined /\ Post \in MethodTokens(h, <<>>)
ContainsPost(h) ==
    h # Undefined /\ \E i \in 1..Len(h) : \E j \in i..Len(h) : SubSeq(h, i, j) = Post

----------------------------------------------------------------------------
(* Properties *)

HasDiagnosis(out, msg) == \E i \in 1..Len(out) : out[i].warn /\ out[i].msg = msg
IssuedIn(reqs, probe) == \E i \in 1..Len(reqs) : reqs[i] = probe

\* diagnoses that can only come from Probe A, Probe B or the catch block
EarlierDiagnoses == Len(Diagnoses) - Count("SCHEMA")

C1_Guard ==
    HttpRun =>
        /\ Issued("INTROSPECTION") => EarlierDiagnoses = 0
        /\ PastTry => (Issued("INTROSPECTION") <=> EarlierDiagnoses = 0)

C1_NotFound ==
    /\ (pc = "awaitOptions" /\ promise.state = "fulfilled"
            /\ promise.value.statusCode = 404)
         => /\ HasDiagnosis(output', "OPTIONS response returned 404")
            /\ CountIn(Added, "NOT_FOUND") = 1
    /\ HasDiagnosis(output, "OPTIONS response returned 404")
         => /\ HasDiagnosis(output', "OPTIONS response returned 404")
            /\ hasIdentifiedProblem'
            /\ ~IssuedIn(requests', "INTROSPECTION")

\* C1: in an HTTP run the introspection probe is issued if and only if
\* Probe A and Probe B (and the catch block) produced no diagnosis; when
\* Probe A returns 404 the NOT_FOUND diagnosis is reported, stays reported,
\* and the introspection probe is never issued.
C1_IntrospectionOnlyWithoutProblem == []C1_Guard /\ [][C1_NotFound]_vars

C1_Witness ==
    /\ pc = "done"
    /\ ~isWebSocket
    /\ HasDiagnosis(output, "OPTIONS response returned 404")
    /\ requests = <<"OPTIONS", "PING">>

\* C2: a failure of any probe (A, B, C, WebSocket) becomes exactly one
\* diagnosis and never leaves the run: the run never ends with an uncaught
\* exception.
C2_NoErrorLeavesTheRun ==
    /\ pc # "unhandledRejection"
    /\ (Ended /\ promise.state = "rejected")
          => Count("TRANSPORT") + Count("UNKNOWN") = 1

\* C3: with a ws/wss endpoint the script that has the WebSocket probe
\* (part_000) issues exactly that one probe and no HTTP request, whatever
\* the probe's outcome, and produces no CORS diagnosis.
C3_WebSocketRunIssuesNoHttp ==
    (program = "part_000" /\ SchemeIsWs(endpoint) /\ pc # "start") =>
        /\ requests = <<"WEBSOCKET">>
        /\ Count("CORS") = 0
        /\ ~hasIdentifiedCorsProblem
        /\ ~Emitted(Suggestion)

C3_Witness ==
    /\ program = "part_000"
    /\ endpoint = <<"W","S","S",":">>
    /\ pc = "done"
    /\ wsFirst.kind = "connectFailed"
    /\ wsFirst.code = "ECONNREFUSED"
    /\ requests = <<"WEBSOCKET">>
    /\ CategoriesOf(output) = <<"TRANSPORT">>

WebSocketRunEnded == pc = "done" /\ isWebSocket

WsTransportCase ==
    \/ wsFirst.kind = "connectFailed" /\ wsFirst.code \in TransportCodes \cup {NoCode}
    \/ wsFirst.kind = "error" /\ wsFirst.code \in TransportCodes

LastDiagnosisAt == CHOOSE i \in 1..Len(output) :
                       output[i].warn /\ \A j \in (i + 1)..Len(output) : ~output[j].warn

\* C5: a transport failure of Probe A or Probe B with code ENOTFOUND,
\* ECONNREFUSED or EPROTO yields exactly one TRANSPORT diagnosis; any other
\* code, or none, yields exactly one UNKNOWN diagnosis that includes the raw
\* error and is followed by the request to report the case.
C5_HttpFailureClassifiedByCode ==
    (pc = "done" /\ ~SchemeIsWs(endpoint) /\ promise.state = "rejected") =>
        LET code == promise.value.code
            last == output[LastDiagnosisAt]
        IN  /\ Count("TRANSPORT") + Count("UNKNOWN") = 1
            /\ code \in TransportCodes => Category(last.msg) = "TRANSPORT"
            /\ code \notin TransportCodes =>
                  /\ Category(last.msg) = "UNKNOWN"
                  /\ last.arg = <<code>>
                  /\ LastDiagnosisAt < Len(output)
                  /\ output[LastDiagnosisAt + 1].msg = ReportRequest

PreflightMessage == "OPTIONS response is missing header 'access-control-allow-methods: POST'"
ActualMessage == "POST response missing 'access-control-allow-origin' header"

\* C6: after Probe A, a CORS diagnosis has been produced when
\* access-control-allow-methods is missing or does not contain POST, and
\* none when it contains POST as a method name ("GET, POST"); whatever the
\* status code.
C6_PreflightDependsOnAllowMethods ==
    pc = "awaitPing" =>
        LET h == Header(optionsResponse, ACAM)
        IN  /\ HasPostToken(h) => Count("CORS") = 0
            /\ ~ContainsPost(h) =>
                  /\ Count("CORS") = 1
                  /\ HasDiagnosis(output, PreflightMessage)

C6_Witness ==
    /\ pc = "awaitPing"
    /\ Header(optionsResponse, ACAM) = <<"G","E","T",","," ","P","O","S","T">>
    /\ optionsResponse.statusCode = 404
    /\ Count("CORS") = 0

PingContinues == pc = "awaitPing" /\ promise.state = "fulfilled"

\* C7 as claimed: Probe B's check produces no diagnosis exactly when
\* access-control-allow-origin equals "*" or the request origin, and a CORS
\* diagnosis for every other value, absent and empty included.
C7_OriginAllowedIffStarOrOrigin ==
    [][PingContinues =>
          LET h == Header(promise.value, ACAO)
          IN  /\ CountIn(Added, "CORS") = 0 <=> (h = Str("*") \/ h = origin)
              /\ CountIn(Added, "CORS") <= 1]_vars

\* C7 amended: Probe B's check produces no diagnosis exactly when
\* access-control-allow-origin is present, is not empty, and equals "*" or
\* the request origin; it produces one CORS diagnosis otherwise (so an empty
\* header is rejected also when the configured origin is the empty string).
C7_OriginAllowedIffNonEmptyStarOrOrigin ==
    [][PingContinues =>
          LET h == Header(promise.value, ACAO)
          IN  /\ CountIn(Added, "CORS") = 0
                   <=> (h # Undefined /\ h # EmptyString /\ (h = Str("*") \/ h = origin))
              /\ CountIn(Added, "CORS") <= 1
              /\ CountIn(Added, "CORS") = 1 => HasDiagnosis(Added, ActualMessage)]_vars

C7_Witness ==
    /\ pc = "done"
    /\ requests = <<"OPTIONS", "PING">>
    /\ promise.state = "fulfilled"
    /\ origin = EmptyString
    /\ Header(promise.value, ACAO) = EmptyString
    /\ HasDiagnosis(output, ActualMessage)

StatusCategories(statusCode) ==
    IF statusCode = 401 THEN <<"AUTH">>
    ELSE IF statusCode = 404 THEN <<"NOT_FOUND">>
    ELSE <<>>

OptionsContinues == pc = "awaitOptions" /\ promise.state = "fulfilled"

\* C8: for the response of Probe A and of Probe B the status rule and the
\* CORS rule each decide on their own: 401 gives AUTH, 404 gives NOT_FOUND,
\* any other status nothing, and the CORS diagnosis follows from the header
\* alone; after Probe A, whatever it produced, Probe B is issued.
C8_StatusAndCorsIndependent ==
    [][/\ OptionsContinues =>
            /\ CategoriesOf(Added)
                 = StatusCategories(promise.value.statusCode)
                     \o (IF ContainsPost(Header(promise.value, ACAM))
                         THEN <<>> ELSE <<"CORS">>)
            /\ requests' = Append(requests, "PING")
            /\ pc' = "awaitPing"
       /\ PingContinues =>
            LET h == Header(promise.value, ACAO)
            IN  CategoriesOf(Added)
                  = StatusCategories(promise.value.statusCode)
                      \o (IF h # Undefined /\ h # EmptyString
                               /\ (h = Str("*") \/ h = origin)
                          THEN <<>> ELSE <<"CORS">>)]_vars

C8_Witness ==
    /\ pc = "done"
    /\ requests = <<"OPTIONS", "PING">>
    /\ CategoriesOf(output) = <<"NOT_FOUND", "CORS", "AUTH", "CORS">>

\* C9: the CORS flag is true exactly when a CORS diagnosis has been produced;
\* the tunnel suggestion is never emitted without one, and once the run is
\* past the try/catch it has been emitted exactly when there is one.
C9_CorsFlagIffCorsDiagnosis ==
    /\ hasIdentifiedCorsProblem <=> Count("CORS") > 0
    /\ Emitted(Suggestion) => Count("CORS") > 0
    /\ PastTry => (Emitted(Suggestion) <=> Count("CORS") > 0)

C9_Witness ==
    /\ pc = "done"
    /\ hasIdentifiedCorsProblem
    /\ CategoriesOf(output) = <<"AUTH", "CORS", "NOT_FOUND">>
    /\ Emitted(Suggestion)

IntrospectionChecked ==
    pc = "done" /\ Issued("INTROSPECTION") /\ promise.state = "fulfilled"

\* no top-level data field, or no __schema field in data
LacksIntrospectionShape(v) ==
    \/ ~in("data", v)
    \/ ~in("__schema", get(v, "data"))

\* C10: a Probe C body that parses but has no data field, or whose data has
\* no __schema field (data null or not an object, or the document itself not
\* an object, included) yields exactly one diagnosis: the "does introspection
\* need to be turned on" one, quoting the body.
C10_UnshapedBodyMeansIntrospectionOff ==
    IntrospectionChecked =>
        LET body == promise.value.body
            p == JSONparse(body)
        IN  (p.ok /\ LacksIntrospectionShape(p.val)) =>
                /\ Len(Diagnoses) = 1
                /\ Diagnoses[1].msg = "Introspection query received a response"
                /\ Diagnoses[1].arg = body

ParseFailureMessage == "Introspection query could not parse"
InvalidSchemaMessage == "Invalid schema from introspection"

\* the body parses and has data.__schema
HasIntrospectionShape(body) ==
    /\ JSONparse(body).ok
    /\ ~LacksIntrospectionShape(JSONparse(body).val)

\* C11: the "could not parse ... as valid json" diagnosis is produced only
\* when the Probe C body fails to parse; for a body that parses and has
\* data.__schema the schema library alone decides: validation errors give
\* exactly one diagnosis listing them, no errors give none, and a failure
\* while building the schema is not reported as a JSON parse failure.
C11_ParseFailureOnlyForUnparsableBody ==
    IntrospectionChecked =>
        LET body == promise.value.body
        IN  /\ HasDiagnosis(output, ParseFailureMessage) => ~JSONparse(body).ok
            /\ (HasIntrospectionShape(body) /\ graphql = "errors")
                  => (Len(Diagnoses) = 1 /\ Diagnoses[1].msg = InvalidSchemaMessage)
            /\ (HasIntrospectionShape(body) /\ graphql = "valid")
                  => Len(Diagnoses) = 0
            /\ (HasIntrospectionShape(body) /\ graphql = "throws")
                  => ~HasDiagnosis(output, ParseFailureMessage)

AllProbes == <<"OPTIONS", "PING", "INTROSPECTION">>
PassingStatus(response) == response.statusCode \notin {401, 404}

\* Probe A returns without 401/404 and with POST allowed: no diagnosis
C12_ProbeA ==
    (OptionsContinues /\ PassingStatus(promise.value)
        /\ ContainsPost(Header(promise.value, ACAM)))
      => /\ Len(DiagnosesOf(output')) = 0
         /\ ~hasIdentifiedProblem'

\* after such a Probe A, Probe B returns without 401/404 and with an allowed
\* origin: no diagnosis, and Probe C is issued
C12_ProbeB(allowed) ==
    (PingContinues /\ Len(Diagnoses) = 0 /\ PassingStatus(promise.value) /\ allowed)
      => /\ Len(DiagnosesOf(output')) = 0
         /\ ~hasIdentifiedProblem'
         /\ requests' = AllProbes
         /\ pc' = "awaitIntrospection"

\* Probe C returns a body whose data.__schema the schema library accepts
C12_ProbeC ==
    (pc = "awaitIntrospection" /\ promise.state = "fulfilled" /\ graphql' = "valid")
      => /\ HasIntrospectionShape(promise.value.body)
         /\ Len(DiagnosesOf(output')) = 0
         /\ ~hasIdentifiedProblem'
         /\ requests' = AllProbes
         /\ pc' = "done"

\* C12 as claimed: an HTTP run in which Probe A and Probe B return without
\* 401/404, Probe A allows POST, Probe B's access-control-allow-origin is "*"
\* or the origin, and Probe C returns a valid data.__schema, issues all three
\* probes and produces no diagnosis.
C12_CleanRunHasNoDiagnosis ==
    [][/\ C12_ProbeA
       /\ C12_ProbeB(LET h == Header(promise.value, ACAO)
                     IN  h = Str("*") \/ h = origin)
       /\ C12_ProbeC]_vars

\* C12 amended: the same, for a Probe B access-control-allow-origin that is
\* not empty and is "*" or the origin (an empty header is a CORS diagnosis
\* also when the origin is the empty string, and Probe C is then not issued).
C12_CleanRunWithNonEmptyOriginHeader ==
    [][/\ C12_ProbeA
       /\ C12_ProbeB(LET h == Header(promise.value, ACAO)
                     IN  h # EmptyString /\ (h = Str("*") \/ h = origin))
       /\ C12_ProbeC]_vars

C12_Witness ==
    /\ pc = "done"
    /\ ~isWebSocket
    /\ requests = AllProbes
    /\ graphql = "valid"
    /\ promise.state = "fulfilled"
    /\ HasIntrospectionShape(promise.value.body)
    /\ Len(Diagnoses) = 0
    /\ ~hasIdentifiedProblem

\* C13: when a run has ended, the fallback message has been emitted if and
\* only if the run produced no diagnosis: never both, never neither.
C13_FallbackIffNoDiagnosis ==
    Ended => (Emitted(Fallback) <=> Len(Diagnoses) = 0)

WsSettled == isWebSocket /\ promise.state \in {"fulfilled", "rejected"}
\* a step in which the client or the connection delivers an event
WsEventStep == ws # "none" /\ (ws' # ws \/ wsEvents' # wsEvents)

\* the promise of the WebSocket probe is settled by its first terminal event
C14_SettledByFirstEvent ==
    (isWebSocket /\ pc # "start") =>
        /\ promise.state = "pending" <=> wsFirst.kind = "none"
        /\ wsFirst.kind = "close" => promise = Fulfilled(Undefined)
        /\ wsFirst.kind = "error" => promise = Rejected([code |-> wsFirst.code])
        /\ wsFirst.kind = "connectFailed" =>
              promise = Rejected([code |-> IF wsFirst.code = NoCode
                                           THEN "ENOTFOUND" ELSE wsFirst.code])

C14_LaterEventsChangeNothing ==
    /\ WsSettled => promise' = promise /\ wsFirst' = wsFirst
    /\ WsEventStep =>
          /\ pc' = pc /\ output' = output /\ requests' = requests
          /\ hasIdentifiedProblem' = hasIdentifiedProblem
          /\ hasIdentifiedCorsProblem' = hasIdentifiedCorsProblem
    /\ (isWebSocket /\ pc = "done") =>
          /\ pc' = pc /\ output' = output /\ requests' = requests
          /\ hasIdentifiedProblem' = hasIdentifiedProblem

\* C14: the WebSocket probe settles exactly once, on the first of
\* connectFailed, post-connect error and post-connect close, in whatever
\* order and number the events come; an event after that changes neither the
\* settled promise nor the run's position, output or flags.
C14_WebSocketSettlesOnce ==
    []C14_SettledByFirstEvent /\ [][C14_LaterEventsChangeNothing]_vars

C14_Witness ==
    /\ pc = "done"
    /\ isWebSocket
    /\ wsFirst = [kind |-> "close", code |-> NoCode]
    /\ wsEvents >= 2
    /\ promise = Fulfilled(Undefined)
    /\ Len(Diagnoses) = 0

IsPrefix(s, t) == Len(s) <= Len(t) /\ s = SubSeq(t, 1, Len(s))

\* the probes issued so far, and the one in flight
C15_Order ==
    /\ HttpRun => IsPrefix(requests, AllProbes)
    /\ (isWebSocket /\ pc # "start") => requests = <<"WEBSOCKET">>
    /\ promise.state = "pending" => pc \in {"awaitWebSocket", "awaitOptions", "awaitPing",
                                            "awaitIntrospection"}
    /\ pc = "awaitOptions" => requests = <<"OPTIONS">>
    /\ pc = "awaitPing" => requests = <<"OPTIONS", "PING">>
    /\ pc = "awaitIntrospection" => requests = AllProbes

\* a probe is issued only at the start or when the previous one has resolved
C15_IssuedAfterPreviousResolved ==
    requests' # requests =>
        /\ Len(requests') = Len(requests) + 1
        /\ IsPrefix(requests, requests')
        /\ pc = "start" \/ promise.state = "fulfilled"
        /\ promise' = Pending
        /\ ~IssuedIn(requests, requests'[Len(requests')])

\* C15: probes are issued one at a time and at most once each: a probe is
\* issued only when no other is in flight, Probe B only after Probe A has
\* resolved, Probe C only after Probe B has resolved, none is retried; an
\* HTTP run issues at most OPTIONS, ping POST, introspection POST, in that
\* order.
C15_ProbesSequentialAtMostOnce ==
    []C15_Order /\ [][C15_IssuedAfterPreviousResolved]_vars

C15_Witness ==
    /\ pc = "done"
    /\ requests = AllProbes
    /\ promise.state = "fulfilled"
    /\ graphql = "errors"
    /\ Len(Diagnoses) = 1

C16_Flags ==
    /\ hasIdentifiedProblem <=> Len(Diagnoses) > 0
    /\ hasIdentifiedCorsProblem => hasIdentifiedProblem

C16_Grows ==
    /\ IsPrefix(output, output')
    /\ IsPrefix(Diagnoses, DiagnosesOf(output'))
    /\ hasIdentifiedProblem => hasIdentifiedProblem'
    /\ hasIdentifiedCorsProblem => hasIdentifiedCorsProblem'

\* C16: within a run the findings only grow: every step keeps the lines and
\* diagnoses produced so far and appends to them, and neither flag goes from
\* true to false; hasIdentifiedProblem is true exactly when there is a
\* diagnosis, and hasIdentifiedCorsProblem implies hasIdentifiedProblem.
C16_FindingsOnlyGrow == []C16_Flags /\ [][C16_Grows]_vars

C16_Witness ==
    /\ pc = "done"
    /\ CategoriesOf(output) = <<"CORS", "AUTH">>
    /\ hasIdentifiedProblem
    /\ hasIdentifiedCorsProblem

InFlight == promise.state = "pending"

\* while a probe is in flight the run has not moved on
C17_Waiting ==
    InFlight =>
        /\ ~Ended
        /\ ~Emitted(Suggestion)
        /\ ~Emitted(Fallback)
        /\ requests[Len(requests)] =
              (CASE pc = "awaitWebSocket" -> "WEBSOCKET"
                 [] pc = "awaitOptions" -> "OPTIONS"
                 [] pc = "awaitPing" -> "PING"
                 [] pc = "awaitIntrospection" -> "INTROSPECTION")

\* and it moves on only after the probe has settled
C17_NoProgressWhileInFlight ==
    InFlight =>
        /\ pc' = pc
        /\ output' = output
        /\ requests' = requests

\* C17: if every issued probe settles, every run ends; as long as an issued
\* probe has not settled (a hung endpoint, a WebSocket connection that opens
\* and emits neither error nor close) the run does not end, issues no later
\* probe and prints neither the CORS suggestion nor the fallback message.
C17_EndsIffProbesSettle ==
    /\ <>Ended
    /\ []C17_Waiting
    /\ [][C17_NoProgressWhileInFlight]_vars

C17_Witness ==
    /\ pc = "awaitWebSocket"
    /\ ws = "open"
    /\ wsFirst.kind = "none"
    /\ InFlight
    /\ requests = <<"WEBSOCKET">>
    /\ ~Emitted(Fallback)

\* C18: in every run no diagnosis is printed after the CORS suggestion, and
\* the fallback message, once printed, is the last line of the output.
C18_SuggestionAfterDiagnosesFallbackLast ==
    /\ \A i \in 1..Len(output) :
          output[i].msg = Suggestion =>
              \A j \in (i + 1)..Len(output) : ~output[j].warn
    /\ Emitted(Fallback) =>
          /\ output[Len(output)].msg = Fallback
          /\ \A i \in 1..(Len(output) - 1) : output[i].msg # Fallback
    /\ Emitted(Suggestion) => ~Issued("INTROSPECTION")

C18_Witness ==
    /\ pc = "done"
    /\ program = "index.js"
    /\ CategoriesOf(output) = <<"CORS", "NOT_FOUND", "CORS">>
    /\ output[Len(output)].msg = Suggestion

\* C19: a diagnosis of Probe C is the only diagnosis of its run; an HTTP run
\* has at most four diagnoses (a status and a CORS diagnosis for each of
\* Probe A and Probe B), at most three when one of them is a transport or
\* unknown diagnosis; a WebSocket run has at most one.
C19_DiagnosisCounts ==
    /\ Count("SCHEMA") > 0 => Len(Diagnoses) = 1
    /\ HttpRun =>
          /\ Len(Diagnoses) <= 4
          /\ Count("AUTH") + Count("NOT_FOUND") <= 2
          /\ Count("CORS") <= 2
          /\ Count("TRANSPORT") + Count("UNKNOWN") > 0 => Len(Diagnoses) <= 3
    /\ isWebSocket => Len(Diagnoses) <= 1

C19_Witness ==
    /\ pc = "done"
    /\ HttpRun
    /\ Len(Diagnoses) = 4
    /\ Count("AUTH") = 2

FailureCategories == {"TRANSPORT", "UNKNOWN"}

\* the diagnoses a step appends
AddedDiagnoses == DiagnosesOf(Added)

C20_ProbeAFails ==
    (pc = "awaitOptions" /\ promise.state = "rejected") =>
        /\ pc' = "done"
        /\ requests' = <<"OPTIONS">>
        /\ Len(DiagnosesOf(output')) = 1
        /\ Category(DiagnosesOf(output')[1].msg) \in FailureCategories

C20_ProbeBFails ==
    (pc = "awaitPing" /\ promise.state = "rejected") =>
        /\ pc' = "done"
        /\ requests' = <<"OPTIONS", "PING">>
        /\ IsPrefix(output, output')
        /\ Len(AddedDiagnoses) = 1
        /\ Category(AddedDiagnoses[1].msg) \in FailureCategories

C20_AtMostOneAndLast ==
    (HttpRun /\ Count("TRANSPORT") + Count("UNKNOWN") > 0) =>
        /\ Count("TRANSPORT") + Count("UNKNOWN") = 1
        /\ Category(Diagnoses[Len(Diagnoses)].msg) \in FailureCategories
        /\ pc = "done"
        /\ ~Issued("INTROSPECTION")

\* C20: a failure of Probe A ends the probing: Probe B and Probe C are not
\* issued and the run's only diagnosis is the failure's; a failure of Probe
\* B keeps what Probe A's checks printed and adds exactly one diagnosis. An
\* HTTP run has at most one TRANSPORT or UNKNOWN diagnosis, and it is the
\* last diagnosis of the run.
C20_FailureSkipsTheRest ==
    []C20_AtMostOneAndLast /\ [][C20_ProbeAFails /\ C20_ProbeBFails]_vars

C20_Witness ==
    /\ pc = "done"
    /\ requests = <<"OPTIONS", "PING">>
    /\ promise.state = "rejected"
    /\ CategoriesOf(output) = <<"AUTH", "CORS", "UNKNOWN">>

====
